---- MODULE Spec2Model ----
(***************************************************************************)
(* A model of keras_ocr/datasets.py.                                       *)
(*                                                                         *)
(* Strings whose characters matter to the code (label lines, split names,  *)
(* paths, texts, alphabets) are sequences of Unicode code points, so that  *)
(* strip, split, join, slicing, substring tests and filtering are computed *)
(* character by character as Python computes them: 97 is "a", 98 "b",      *)
(* 120 "x", 32 the space, 9 the tab, 44 the comma, 34 the double quote,    *)
(* 47 the slash.                                                           *)
(*                                                                         *)
(* The variable prog names the entry point a behaviour runs:               *)
(*   "parse"  _read_born_digital_labels_file                               *)
(*   "born"   get_born_digital_recognizer_dataset                          *)
(*   "coco"   get_cocotext_recognizer_dataset                              *)
(*   "gen"    get_recognizer_image_generator                               *)
(*   "cval"   the fill colour draw of get_recognizer_image_generator       *)
(***************************************************************************)
EXTENDS Integers, Sequences, FiniteSets

VARIABLES
  prog,       \* the entry point this behaviour runs
  pc,         \* position of the running call
  split,      \* the split argument
  io,         \* the I/O performed so far (a set of effects; for "gen" the set
              \* of lines written to stdout)
  err,        \* the exception that ended the call, or "none"
  dataset,    \* the list being built / returned
  file,       \* parse: the lines of the labels file
  trainGt,    \* born: the lines of train/gt.txt
  testGt,     \* born: the lines of the test ground truth file
  imgs,       \* coco: labels['imgs'] in the order of the JSON document
  limit,      \* coco: the limit argument, <<>> for None and <<n>> for n
  flags,      \* coco: english_only, legible_only, return_raw_labels
  selected,   \* coco: selected_ids
  futures,    \* coco: the state of every submitted fetch
  taken,      \* coco: the futures in the order as_completed handed them over
  ret,        \* coco: the shape of the returned value
  glabels,    \* gen: the private copy of the labels
  gorig,      \* gen: the caller's list
  galphabet,  \* gen: the alphabet argument
  gindex,     \* gen: the index the cycle hands out next
  gaugmenter, \* gen: whether an augmenter was passed
  gyield,     \* gen: <<the pair yielded>> while suspended at the yield, else <<>>
  gentry,     \* gen: the entry visited last
  gpass,      \* gen: the entries visited since the last visit of index 0
  cvalChan,   \* cval: how many samples of the size-3 draw have been drawn
  cvalSample  \* cval: the sample drawn last

vars == <<prog, pc, split, io, err, dataset, file, trainGt, testGt, imgs, limit,
          flags, selected, futures, taken, ret, glabels, gorig, galphabet,
          gindex, gaugmenter, gyield, gentry, gpass,
          cvalChan, cvalSample>>

datasetVars == <<split, io, err, dataset, file, trainGt, testGt>>
cocoVars == <<imgs, limit, flags, selected, futures, taken, ret>>
genVars == <<glabels, gorig, galphabet, gindex, gaugmenter, gyield, gentry, gpass>>
cvalVars == <<cvalChan, cvalSample>>

(***************************************************************************)
(* Bounds of the model.                                                    *)
(***************************************************************************)
MaxLineLen == 7
MaxFileLines == 2
MaxImgs == 3
MaxLabels == 2

None == "None"

(***************************************************************************)
(* Python string operations.                                               *)
(***************************************************************************)
Space == 32
Tab == 9
Comma == 44
Quote == 34
Slash == 47

\* the characters str.strip() removes: those str.isspace() holds of
IsSpace(c) ==
  c \in (9..13) \cup (28..32) \cup {133, 160, 5760} \cup (8192..8202)
        \cup {8232, 8233, 8239, 8287, 12288}

\* str.strip(): leading and trailing whitespace removed.
RECURSIVE LStrip(_)
LStrip(s) == IF s # <<>> /\ IsSpace(Head(s)) THEN LStrip(Tail(s)) ELSE s

RECURSIVE RStrip(_)
RStrip(s) ==
  IF s # <<>> /\ IsSpace(s[Len(s)]) THEN RStrip(SubSeq(s, 1, Len(s) - 1)) ELSE s

Strip_LeftOnly(s) == LStrip(s)
Strip(s) == RStrip(LStrip(s))

\* str.split(','): the segments between the commas, at least one segment.
RECURSIVE SplitFrom(_, _)
SplitFrom(s, cur) ==
  IF s = <<>> THEN <<cur>>
  ELSE IF Head(s) = Comma THEN <<cur>> \o SplitFrom(Tail(s), <<>>)
  ELSE SplitFrom(Tail(s), Append(cur, Head(s)))

Split(s) == SplitFrom(s, <<>>)

\* ','.join(segments)
RECURSIVE Join(_)
Join(segments) ==
  IF segments = <<>> THEN <<>>
  ELSE IF Len(segments) = 1 THEN segments[1]
  ELSE segments[1] \o <<Comma>> \o Join(Tail(segments))

\* s[1:-1]
SliceInner_NoSlice(s) == s
SliceInner(s) == IF Len(s) <= 2 THEN <<>> ELSE SubSeq(s, 2, Len(s) - 1)

\* os.path.join(a, b) on a POSIX system
PathJoin(a, b) ==
  IF b # <<>> /\ Head(b) = Slash THEN b
  ELSE IF a = <<>> \/ a[Len(a)] = Slash THEN a \o b
  ELSE a \o <<Slash>> \o b

\* a in b for two strings: a is a substring of b
IsSubstring(a, b) ==
  \E i \in 0..(Len(b) - Len(a)) : SubSeq(b, i + 1, i + Len(a)) = a

(***************************************************************************)
(* _read_born_digital_labels_file                                          *)
(***************************************************************************)
\* one element of the second list comprehension
LabelEntry(segments, image_folder) ==
  [filepath |-> PathJoin(image_folder, segments[1]),
   box |-> None,
   text |-> SliceInner(Strip(Join(Tail(segments))))]

\* lines: the lines f.readlines() returns (a line terminator, when a line
\* has one, is whitespace at its end and is stripped with the rest)
ReadBornDigitalLabelsFile(lines, image_folder) ==
  [i \in 1..Len(lines) |-> LabelEntry(Split(Strip(lines[i])), image_folder)]


(***************************************************************************)
(* Values shared by the entry points.                                      *)
(***************************************************************************)
\* "train", "val", "test"
TRAIN == <<116, 114, 97, 105, 110>>
VAL == <<118, 97, 108>>
TEST == <<116, 101, 115, 116>>
TRAINVAL == TRAIN \o VAL
TRAINTEST == TRAIN \o TEST

\* the split values a caller passes: every supported one, and unsupported ones
Splits == {TRAIN, VAL, TEST, TRAINVAL, TRAINTEST, <<>>}

\* x in [a, b, ...] for a Python list
InList(x, list) == \E i \in 1..Len(list) : list[i] = x

\* the cache_dir argument of the calls modelled, and the default of lines 53-54
\* and 112-113 (os.path.expanduser of ~/.keras-ocr, for a home directory /h):
\* "/c", and "/h" joined with ".keras-ocr"
CacheDirArg == <<47, 99>>
DefaultCacheDir == PathJoin(<<47, 104>>, <<46, 107, 101, 114, 97, 115, 45, 111, 99, 114>>)
ResolveCacheDir(cache_dir) == IF cache_dir = None THEN DefaultCacheDir ELSE cache_dir

\* limit is <<>> for None and <<n>> for the integer n
NoLimit == <<>>
NoFlags == [english_only |-> FALSE, legible_only |-> FALSE, return_raw_labels |-> FALSE]

IdleDataset ==
  /\ split = <<>> /\ io = {} /\ err = "none" /\ dataset = <<>>
  /\ file = <<>> /\ trainGt = <<>> /\ testGt = <<>>
IdleCoco ==
  /\ imgs = <<>> /\ limit = NoLimit /\ flags = NoFlags /\ selected = <<>>
  /\ futures = <<>> /\ taken = <<>> /\ ret = "none"
IdleGen ==
  /\ glabels = <<>> /\ gorig = <<>> /\ galphabet = <<>> /\ gindex = 0
  /\ gaugmenter = FALSE /\ gyield = <<>> /\ gentry = <<>> /\ gpass = <<>>
IdleCval == cvalChan = 0 /\ cvalSample = 0

(***************************************************************************)
(* "parse": one call of _read_born_digital_labels_file.                    *)
(***************************************************************************)
LineChars == {97, Comma, Quote, Space, Tab}
Lines == UNION {[1..n -> LineChars] : n \in 0..MaxLineLen}

\* the lines the ground truth files of "born" are made of
\* the blank line,  a,""  and  a, "a,a"
GtLines == {<<>>,
            <<97, Comma, Quote, Quote>>,
            <<97, Comma, Space, Quote, 97, Comma, 97, Quote>>}
GtFiles == UNION {[1..n -> GtLines] : n \in 0..MaxFileLines}

\* "/d"
ParseFolder == <<47, 100>>

InitParse ==
  /\ prog = "parse" /\ pc = "call"
  /\ file \in {<<l>> : l \in Lines} \cup GtFiles
  /\ split = <<>> /\ io = {} /\ err = "none" /\ dataset = <<>>
  /\ trainGt = <<>> /\ testGt = <<>>
  /\ IdleCoco /\ IdleGen /\ IdleCval

ReadLabelsCall ==
  /\ prog = "parse" /\ pc = "call"
  /\ dataset' = ReadBornDigitalLabelsFile(file, ParseFolder)
  /\ pc' = "returned"
  /\ UNCHANGED <<prog, split, io, err, file, trainGt, testGt>>
  /\ UNCHANGED <<cocoVars, genVars, cvalVars>>

(***************************************************************************)
(* "born": get_born_digital_recognizer_dataset.  A download_and_verify     *)
(* call either returns the path of the file or raises.                     *)
(***************************************************************************)
BornMainDir == PathJoin(ResolveCacheDir(CacheDirArg), <<98, 111, 114, 110, 100, 105, 103, 105, 116, 97, 108>>)
BornTrainDir == PathJoin(BornMainDir, TRAIN)
BornTestDir == PathJoin(BornMainDir, TEST)

InitBorn ==
  /\ prog = "born" /\ pc = "call"
  /\ split \in Splits
  /\ trainGt \in GtFiles /\ testGt \in GtFiles
  /\ io = {} /\ err = "none" /\ dataset = <<>> /\ file = <<>>
  /\ IdleCoco /\ IdleGen /\ IdleCval

\* lines 111-126
BornTrainStage ==
  /\ prog = "born" /\ pc = "call"
  /\ IF InList(split, <<TRAIN, TRAINTEST>>)
     THEN \E ok \in BOOLEAN :
            IF ok
            THEN /\ io' = io \cup {"download train zip", "extract train zip",
                                   "read train gt"}
                 /\ dataset' = dataset \o
                       ReadBornDigitalLabelsFile(trainGt, BornTrainDir)
                 /\ pc' = "test" /\ err' = err
            ELSE /\ io' = io \cup {"download train zip"}
                 /\ pc' = "raised" /\ err' = "fetch"
                 /\ dataset' = dataset
     ELSE /\ pc' = "test"
          /\ UNCHANGED <<io, err, dataset>>
  /\ UNCHANGED <<prog, split, file, trainGt, testGt>>
  /\ UNCHANGED <<cocoVars, genVars, cvalVars>>

\* lines 127-142
BornTestStage ==
  /\ prog = "born" /\ pc = "test"
  /\ IF InList(split, <<TEST, TRAINTEST>>)
     THEN \E zipOk \in BOOLEAN, gtOk \in BOOLEAN :
            IF ~zipOk
            THEN /\ io' = io \cup {"download test zip"}
                 /\ pc' = "raised" /\ err' = "fetch"
                 /\ dataset' = dataset
            ELSE IF ~gtOk
            THEN /\ io' = io \cup {"download test zip", "extract test zip",
                                   "download test gt"}
                 /\ pc' = "raised" /\ err' = "fetch"
                 /\ dataset' = dataset
            ELSE /\ io' = io \cup {"download test zip", "extract test zip",
                                   "download test gt", "read test gt"}
                 /\ dataset' = dataset \o
                       ReadBornDigitalLabelsFile(testGt, BornTestDir)
                 /\ pc' = "returned" /\ err' = err
     ELSE /\ pc' = "returned"
          /\ UNCHANGED <<io, err, dataset>>
  /\ UNCHANGED <<prog, split, file, trainGt, testGt>>
  /\ UNCHANGED <<cocoVars, genVars, cvalVars>>


(***************************************************************************)
(* "coco": get_cocotext_recognizer_dataset.                                *)
(*                                                                         *)
(* The label index (cocotext.v2.json): labels['imgs'] is the sequence imgs *)
(* of image ids, in the order of the document (a Python dict keeps it);    *)
(* an image's 'set' and 'file_name', its annotation ids                    *)
(* (labels['imgToAnns']) and the fields of an annotation (labels['anns'])  *)
(* are functions of the ids.                                               *)
(***************************************************************************)
ImgSet(cocoid) == IF cocoid % 2 = 1 THEN TRAIN ELSE VAL
\* the file name of image cocoid: "i" and the digit of the id
ImgFileName(cocoid) == <<105, 48 + cocoid>>
ImgToAnns(cocoid) ==
  IF cocoid % 3 = 0 THEN <<>>
  ELSE IF cocoid % 3 = 1 THEN <<10 * cocoid + 2, 10 * cocoid + 1>>
  ELSE <<10 * cocoid + 1>>
AnnImage(annIdx) == annIdx \div 10
AnnLanguage(annIdx) == IF annIdx % 2 = 1 THEN "english" ELSE "not english"
AnnLegibility(annIdx) ==
  IF annIdx % 2 = 1 /\ AnnImage(annIdx) % 2 = 1 THEN "legible" ELSE "illegible"
AnnUtf8String(annIdx) ==
  IF AnnLegibility(annIdx) = "legible" THEN <<97>> ELSE <<>>
\* np.array(ann['mask']).reshape(-1, 2): the polygon of the annotation
AnnMask(annIdx) == annIdx

ImgIds == 1..MaxImgs
\* the orders the document may list its images in
ImgOrders ==
  {s \in UNION {[1..n -> ImgIds] : n \in 0..MaxImgs} :
     \A i \in 1..Len(s), j \in 1..Len(s) : i # j => s[i] # s[j]}
Limits == {NoLimit} \cup {<<n>> : n \in 0..MaxImgs}
Flags == [english_only : BOOLEAN, legible_only : BOOLEAN, return_raw_labels : BOOLEAN]

CocoMainDir == PathJoin(ResolveCacheDir(CacheDirArg), <<99, 111, 99, 111, 45, 116, 101, 120, 116>>)
CocoImagesDir == PathJoin(CocoMainDir, <<105, 109, 97, 103, 101, 115>>)

InitCoco ==
  /\ prog = "coco" /\ pc = "call"
  /\ split \in Splits
  /\ imgs \in ImgOrders /\ limit \in Limits /\ flags \in Flags
  /\ selected = <<>> /\ futures = <<>> /\ taken = <<>> /\ ret = "none"
  /\ io = {} /\ err = "none" /\ dataset = <<>>
  /\ file = <<>> /\ trainGt = <<>> /\ testGt = <<>>
  /\ IdleGen /\ IdleCval

\* line 64: the ids whose set is a substring of split, in the order of imgs
RECURSIVE SelectIds(_, _)
SelectIds(ids, splitArg) ==
  IF ids = <<>> THEN <<>>
  ELSE (IF IsSubstring(ImgSet(Head(ids)), splitArg) THEN <<Head(ids)>> ELSE <<>>)
       \o SelectIds(Tail(ids), splitArg)

\* line 65: the truth value of limit
LimitGiven(lim) == lim # NoLimit /\ lim[1] # 0

\* s[:n] for n >= 0
Prefix(s, n) == SubSeq(s, 1, IF n < Len(s) THEN n ELSE Len(s))

\* lines 64-67
SelectedIds(ids, splitArg, lim) ==
  IF LimitGiven(lim) THEN Prefix(SelectIds(ids, splitArg), lim[1])
  ELSE SelectIds(ids, splitArg)

\* lines 52-79: the assertion, the labels archive, the selection, and the
\* submission of one fetch per selected file name
CocoStart ==
  /\ prog = "coco" /\ pc = "call"
  /\ IF ~InList(split, <<TRAIN, VAL, TRAINVAL>>)
     THEN /\ pc' = "raised" /\ err' = "AssertionError"
          /\ UNCHANGED <<io, selected, futures>>
     ELSE \E ok \in BOOLEAN :
            IF ok
            THEN /\ io' = io \cup {"download labels zip", "read labels zip"}
                 /\ selected' = SelectedIds(imgs, split, limit)
                 /\ futures' = [i \in 1..Len(selected') |-> "pending"]
                 /\ pc' = "waiting" /\ err' = err
            ELSE /\ io' = io \cup {"download labels zip"}
                 /\ pc' = "raised" /\ err' = "fetch"
                 /\ UNCHANGED <<selected, futures>>
  /\ UNCHANGED <<prog, split, dataset, file, trainGt, testGt>>
  /\ UNCHANGED <<imgs, limit, flags, taken, ret>>
  /\ UNCHANGED <<genVars, cvalVars>>

\* a worker runs tools.download_and_verify for one file name: it returns or raises
FetchImage(i) ==
  /\ prog = "coco" /\ pc \in {"waiting", "shutdown"}
  /\ futures[i] = "pending"
  /\ \E outcome \in {"ok", "failed"} : futures' = [futures EXCEPT ![i] = outcome]
  /\ io' = io \cup {"download image"}
  /\ UNCHANGED <<prog, pc, split, err, dataset, file, trainGt, testGt>>
  /\ UNCHANGED <<imgs, limit, flags, selected, taken, ret>>
  /\ UNCHANGED <<genVars, cvalVars>>

\* line 82: future.result() raises what the fetch raised
ResultRaises_Never(outcome) == FALSE
ResultRaises(outcome) == outcome = "failed"

\* lines 74-82: as_completed hands over a finished future; its result is taken.
\* An exception leaves the with block, whose exit waits for the other fetches.
TakeResult(i) ==
  /\ prog = "coco" /\ pc = "waiting"
  /\ futures[i] # "pending"
  /\ \A k \in 1..Len(taken) : taken[k] # i
  /\ taken' = Append(taken, i)
  /\ IF ResultRaises(futures[i])
     THEN pc' = "shutdown" /\ err' = "fetch"
     ELSE pc' = pc /\ err' = err
  /\ UNCHANGED <<prog, split, io, dataset, file, trainGt, testGt>>
  /\ UNCHANGED <<imgs, limit, flags, selected, futures, ret>>
  /\ UNCHANGED <<genVars, cvalVars>>

\* line 73: ThreadPoolExecutor.__exit__ is shutdown(wait=True); the exception
\* propagates once every fetch has finished
ExecutorExit ==
  /\ prog = "coco" /\ pc = "shutdown"
  /\ \A i \in 1..Len(futures) : futures[i] # "pending"
  /\ pc' = "raised"
  /\ UNCHANGED <<prog, split, io, err, dataset, file, trainGt, testGt>>
  /\ UNCHANGED <<cocoVars, genVars, cvalVars>>

\* line 84: the order the images are assembled in
AssemblyIds_TakenOrder == [k \in 1..Len(taken) |-> selected[taken[k]]]
AssemblyIds == selected

\* selected_ids.index(selected_id)
IndexOf(s, x) == CHOOSE i \in 1..Len(s) : s[i] = x /\ \A j \in 1..(i - 1) : s[j] # x

\* lines 86-92 for one image
RECURSIVE ImageEntries(_, _, _)
ImageEntries(filepath, annIds, fl) ==
  IF annIds = <<>> THEN <<>>
  ELSE LET annIdx == Head(annIds)
           skip == \/ fl.english_only /\ AnnLanguage(annIdx) # "english"
                   \/ fl.legible_only /\ AnnLegibility(annIdx) # "legible"
       IN (IF skip THEN <<>>
           ELSE <<[filepath |-> filepath, box |-> AnnMask(annIdx),
                   text |-> AnnUtf8String(annIdx)]>>)
          \o ImageEntries(filepath, Tail(annIds), fl)

\* lines 83-92
RECURSIVE AssembleFrom(_, _, _)
AssembleFrom(ids, sel, fl) ==
  IF ids = <<>> THEN <<>>
  ELSE ImageEntries(PathJoin(CocoImagesDir, ImgFileName(sel[IndexOf(sel, Head(ids))])),
                    ImgToAnns(Head(ids)), fl)
       \o AssembleFrom(Tail(ids), sel, fl)

\* lines 73-95: every result was taken without an exception; the with block
\* ends, the dataset is assembled and returned
CocoAssemble ==
  /\ prog = "coco" /\ pc = "waiting"
  /\ Len(taken) = Len(futures)
  /\ dataset' = AssembleFrom(AssemblyIds, selected, flags)
  /\ ret' = IF flags.return_raw_labels THEN "dataset and raw labels" ELSE "dataset"
  /\ pc' = "returned"
  /\ UNCHANGED <<prog, split, io, err, file, trainGt, testGt>>
  /\ UNCHANGED <<imgs, limit, flags, selected, futures, taken>>
  /\ UNCHANGED <<genVars, cvalVars>>

(***************************************************************************)
(* The dataset entry points.                                               *)
(***************************************************************************)
Init == InitParse \/ InitBorn \/ InitCoco

Next ==
  \/ ReadLabelsCall
  \/ BornTrainStage
  \/ BornTestStage
  \/ CocoStart
  \/ \E i \in 1..Len(futures) : FetchImage(i)
  \/ \E i \in 1..Len(futures) : TakeResult(i)
  \/ ExecutorExit
  \/ CocoAssemble

Spec == Init /\ [][Next]_vars


(***************************************************************************)
(* "gen": get_recognizer_image_generator.  The generator object is         *)
(* "created" until the first next(); a next() call runs the body           *)
(* ("running") up to the yield ("yielded"), to the end of the for loop     *)
(* ("exhausted") or to an exception of the image tools ("raised").         *)
(* Images are made by tools.read, tools.warpBox, tools.read_and_fit and    *)
(* the augmenter; the model keeps which of them made the image.            *)
(***************************************************************************)
Box == "box"
GenEntries ==
  {[filepath |-> "f1", box |-> None, text |-> <<98, 120, 97>>],
   [filepath |-> "f2", box |-> Box, text |-> <<120>>],
   [filepath |-> "f3", box |-> None, text |-> <<>>],
   [filepath |-> "f4", box |-> Box, text |-> <<97, 98>>]}
GenDatasets == UNION {[1..n -> GenEntries] : n \in 0..MaxLabels}
\* "ab" and "b"
GenAlphabets == {<<97, 98>>, <<98>>}

InitGen ==
  /\ prog = "gen" /\ pc = "created"
  /\ gorig \in GenDatasets /\ galphabet \in GenAlphabets
  /\ gaugmenter \in BOOLEAN
  /\ glabels = <<>> /\ gindex = 0 /\ gyield = <<>> /\ gentry = <<>> /\ gpass = <<>>
  /\ IdleDataset /\ IdleCoco /\ IdleCval

\* c in alphabet, for a character c and the string alphabet
InAlphabet(c, alphabet) == \E i \in 1..Len(alphabet) : alphabet[i] = c

\* line 156
NWithIllegalCharacters(labels, alphabet) ==
  Cardinality({i \in 1..Len(labels) :
                 \E j \in 1..Len(labels[i].text) :
                   ~InAlphabet(labels[i].text[j], alphabet)})

\* line 177: ''.join([c for c in text if c in alphabet])
RECURSIVE FilterText_Reversed(_, _)
FilterText_Reversed(text, alphabet) ==
  IF text = <<>> THEN <<>>
  ELSE FilterText_Reversed(Tail(text), alphabet)
       \o (IF InAlphabet(Head(text), alphabet) THEN <<Head(text)>> ELSE <<>>)
RECURSIVE FilterText(_, _)
FilterText(text, alphabet) ==
  IF text = <<>> THEN <<>>
  ELSE (IF InAlphabet(Head(text), alphabet) THEN <<Head(text)>> ELSE <<>>)
       \o FilterText(Tail(text), alphabet)

\* random.shuffle(labels): any order of the same entries
Shuffles(labels) ==
  LET n == Len(labels)
      perms == {f \in [1..n -> 1..n] : \A i \in 1..n, j \in 1..n : i # j => f[i] # f[j]}
  IN {[i \in 1..n |-> labels[f[i]]] : f \in perms}

\* line 161
ShuffleNow_Always(index) == TRUE
ShuffleNow(index) == index = 0

\* itertools.cycle(range(n)): the index after index
CycleNext(index, n) == (index + 1) % n

\* itertools.cycle(range(n)) ends only when range(n) is empty; visited is the
\* number of indices handed out since the last index 0
CycleEnds_SinglePass(n, visited) == n = 0 \/ visited = n
CycleEnds(n, visited) == n = 0

\* a next() call of the consumer; the first one runs lines 156-159
GenNext ==
  /\ prog = "gen" /\ pc \in {"created", "yielded"}
  /\ IF pc = "created"
     THEN /\ io' = IF NWithIllegalCharacters(gorig, galphabet) > 0
                   THEN {<<"instances have illegal characters",
                           NWithIllegalCharacters(gorig, galphabet), Len(gorig)>>}
                   ELSE {}
          /\ glabels' = gorig
     ELSE UNCHANGED <<io, glabels>>
  /\ pc' = "running"
  /\ gyield' = <<>>
  /\ UNCHANGED <<prog, split, err, dataset, file, trainGt, testGt>>
  /\ UNCHANGED <<gorig, galphabet, gindex, gaugmenter, gentry, gpass>>
  /\ UNCHANGED <<cocoVars, cvalVars>>

\* lines 160-182: one iteration of the for loop
GenVisit ==
  /\ prog = "gen" /\ pc = "running"
  /\ IF CycleEnds(Len(glabels), Len(gpass))
     THEN /\ pc' = "exhausted"
          /\ UNCHANGED <<glabels, gindex, gyield, gentry, gpass, err, io>>
     ELSE \E shuffled \in (IF ShuffleNow(gindex) THEN Shuffles(glabels) ELSE {glabels}) :
          \E readOk \in BOOLEAN :
            LET entry == shuffled[gindex + 1]
                text == FilterText(entry.text, galphabet)
                image == [filepath |-> entry.filepath,
                          tool |-> IF entry.box # None THEN "warpBox" ELSE "read_and_fit",
                          augmented |-> gaugmenter]
            IN /\ glabels' = shuffled
               \* line 166: print(box), before the image is read
               /\ io' = IF entry.box # None THEN io \cup {<<"box", entry.box>>} ELSE io
               /\ gentry' = <<entry>>
               /\ gpass' = IF gindex = 0 THEN <<entry>> ELSE Append(gpass, entry)
               /\ gindex' = CycleNext(gindex, Len(glabels))
               /\ IF ~readOk
                  THEN pc' = "raised" /\ err' = "read" /\ gyield' = gyield
                  ELSE IF text = <<>>
                  THEN pc' = "running" /\ err' = err /\ gyield' = gyield
                  ELSE /\ pc' = "yielded" /\ err' = err
                       /\ gyield' = <<[image |-> image, text |-> text]>>
  /\ UNCHANGED <<prog, split, dataset, file, trainGt, testGt>>
  /\ UNCHANGED <<gorig, galphabet, gaugmenter>>
  /\ UNCHANGED <<cocoVars, cvalVars>>

NextGen == GenNext \/ GenVisit

\* a next() call runs the body until it yields, ends or raises
SpecGen == InitGen /\ [][NextGen]_vars /\ WF_vars(GenVisit)

(***************************************************************************)
(* "cval": line 164, np.random.randint(low=0, high=255, size=3)            *)
(* .astype('uint8'), one sample of the size-3 draw at a time.              *)
(***************************************************************************)
CvalLow == 0
CvalHigh == 255
CvalSize == 3
Uint8Range == 256

\* numpy.random.randint(low, high): the integers from low (inclusive) to high
\* (exclusive)
Randint(low, high) == low..(high - 1)

AsUint8(v) == v % Uint8Range

InitCval ==
  /\ prog = "cval" /\ pc = "running"
  /\ cvalChan = 0 /\ cvalSample = 0
  /\ IdleDataset /\ IdleCoco /\ IdleGen

DrawCvalSample(v) ==
  /\ prog = "cval" /\ pc = "running"
  /\ v \in Randint(CvalLow, CvalHigh)
  /\ cvalSample' = AsUint8(v)
  /\ cvalChan' = (cvalChan % CvalSize) + 1
  /\ UNCHANGED <<prog, pc, datasetVars, cocoVars, genVars>>

NextCval == \E v \in Randint(CvalLow, CvalHigh) : DrawCvalSample(v)

SpecCval == InitCval /\ [][NextCval]_vars

(***************************************************************************)
(* Properties of the dataset entry points.                                 *)
(***************************************************************************)
SetMin(S) == CHOOSE x \in S : \A y \in S : x <= y
SetMax(S) == CHOOSE x \in S : \A y \in S : y <= x
Positions(s, c) == {i \in 1..Len(s) : s[i] = c}
\* the position of x in a sequence without repetitions (0 when absent)
PosIn(s, x) == IF Positions(s, x) = {} THEN 0 ELSE SetMin(Positions(s, x))

Trimmed(s) ==
  LET keep == {i \in 1..Len(s) : ~IsSpace(s[i])}
  IN IF keep = {} THEN <<>> ELSE SubSeq(s, SetMin(keep), SetMax(keep))
BeforeFirstComma(s) ==
  IF Positions(s, Comma) = {} THEN s
  ELSE SubSeq(s, 1, SetMin(Positions(s, Comma)) - 1)
AfterFirstComma(s) ==
  IF Positions(s, Comma) = {} THEN <<>>
  ELSE SubSeq(s, SetMin(Positions(s, Comma)) + 1, Len(s))
WithoutEnds(s) == [i \in 1..(Len(s) - 2) |-> s[i + 1]]
\* only the surrounding quote characters removed
Unquoted(s) ==
  IF Len(s) >= 2 /\ s[1] = Quote /\ s[Len(s)] = Quote THEN WithoutEnds(s) ELSE s

EnumeratedSplits ==
  IF prog = "coco" THEN {TRAIN, VAL, TRAINVAL} ELSE {TRAIN, TEST, TRAINTEST}

\* C1: a dataset-fetching entry point called with a split outside the
\* dataset's enumerated set performs no I/O, never returns a dataset, and ends
\* with the invalid-argument error.
C1_InvalidSplitFails ==
  (prog \in {"coco", "born"} /\ split \notin EnumeratedSplits) =>
     /\ io = {}
     /\ pc # "returned"
     /\ pc = "raised" => err = "AssertionError"

\* C4: once one of the submitted per-image fetches has failed, the call never
\* returns: no dataset and no raw labels, whatever the order of completion.
C4_FailFast ==
  (prog = "coco" /\ \E i \in 1..Len(futures) : futures[i] = "failed") =>
     /\ pc # "returned"
     /\ dataset = <<>>
     /\ ret = "none"

\* C4 (witness): the call raised after a successful fetch was taken first and a
\* failed one after it.
C4_Witness ==
  /\ prog = "coco" /\ pc = "raised" /\ err = "fetch"
  /\ Len(taken) = 2
  /\ futures[taken[1]] = "ok" /\ futures[taken[2]] = "failed"

\* the id of the image an entry was made from: the digit its path ends with
EntryImage(e) == e.filepath[Len(e.filepath)] - 48
KeptAnnotation(annIdx) ==
  /\ flags.english_only => AnnLanguage(annIdx) = "english"
  /\ flags.legible_only => AnnLegibility(annIdx) = "legible"
\* every annotation of a selected image that passes the filters has an entry
AllAnnotationsPresent ==
  \A k \in 1..Len(selected) :
    \A a \in 1..Len(ImgToAnns(selected[k])) :
      KeptAnnotation(ImgToAnns(selected[k])[a]) =>
        \E p \in 1..Len(dataset) :
          /\ dataset[p].box = AnnMask(ImgToAnns(selected[k])[a])
          /\ EntryImage(dataset[p]) = selected[k]
AnnotationOrderWithinImage ==
  \A p \in 1..Len(dataset), q \in 1..Len(dataset) :
    (p < q /\ EntryImage(dataset[p]) = EntryImage(dataset[q])) =>
      PosIn(ImgToAnns(EntryImage(dataset[p])), dataset[p].box)
        < PosIn(ImgToAnns(EntryImage(dataset[q])), dataset[q].box)

\* C5 (as amended): the returned dataset is the same for every completion order
\* of the fetches: its entries follow the selected image ids in the order the
\* label index lists them (which need not be sorted), and within one image the
\* order of its annotation ids.
C5_DocumentOrder ==
  (prog = "coco" /\ pc = "returned") =>
     /\ AllAnnotationsPresent
     /\ AnnotationOrderWithinImage
     /\ \A p \in 1..Len(dataset), q \in 1..Len(dataset) :
          p < q => PosIn(imgs, EntryImage(dataset[p])) <= PosIn(imgs, EntryImage(dataset[q]))

\* C5 (witness): a dataset with entries of two images was returned after the
\* fetches completed in the reverse of the order of submission.
C5_Witness ==
  /\ prog = "coco" /\ pc = "returned"
  /\ taken = <<2, 1>>
  /\ Len(dataset) >= 2
  /\ EntryImage(dataset[1]) # EntryImage(dataset[Len(dataset)])

\* C5 (as stated): the entries follow the sorted image-id list, and within one
\* image the order of its annotation ids, for every completion order.
C5_SortedOrder ==
  (prog = "coco" /\ pc = "returned") =>
     /\ AllAnnotationsPresent
     /\ AnnotationOrderWithinImage
     /\ \A p \in 1..Len(dataset), q \in 1..Len(dataset) :
          p < q => EntryImage(dataset[p]) <= EntryImage(dataset[q])

\* C8: with limit = N, for any non-negative N, at most N image fetches are
\* submitted and the returned dataset has entries of at most N distinct images.
C8_LimitCapsImages ==
  (prog = "coco" /\ limit # NoLimit) =>
     /\ Len(futures) <= limit[1]
     /\ Cardinality({EntryImage(dataset[p]) : p \in 1..Len(dataset)}) <= limit[1]

ExpectedLabel(line) == WithoutEnds(Trimmed(AfterFirstComma(Trimmed(line))))

\* C7 (as amended): the parser returns one entry per line: the image folder
\* joined with the first comma-separated field, None, and the label, which is
\* the remaining fields rejoined with commas (commas inside it kept), stripped
\* of surrounding whitespace, without its first and last character: the text
\* between the quotes when the label is quoted.
C7_ParsedLabel ==
  (prog = "parse" /\ pc = "returned") =>
     /\ Len(dataset) = Len(file)
     /\ \A i \in 1..Len(file) :
          /\ dataset[i].filepath =
               ParseFolder \o <<Slash>> \o BeforeFirstComma(Trimmed(file[i]))
          /\ dataset[i].box = None
          /\ dataset[i].text = ExpectedLabel(file[i])

\* C7 (witness): the line  a,"a,a"  was parsed to the label  a,a  .
C7_Witness ==
  /\ prog = "parse" /\ pc = "returned"
  /\ file = << <<97, Comma, Quote, 97, Comma, 97, Quote>> >>
  /\ dataset[1].text = <<97, Comma, 97>>
  /\ dataset[1].filepath = <<47, 100, 47, 97>>

\* C7 (as stated): for every line, the label is the remaining fields rejoined
\* with commas with only its surrounding quote characters removed.
C7_OnlyQuotesRemoved ==
  (prog = "parse" /\ pc = "returned") =>
     /\ Len(dataset) = Len(file)
     /\ \A i \in 1..Len(file) :
          /\ dataset[i].filepath =
               ParseFolder \o <<Slash>> \o BeforeFirstComma(Trimmed(file[i]))
          /\ dataset[i].box = None
          /\ dataset[i].text = Unquoted(AfterFirstComma(Trimmed(file[i])))

\* the lines a returned born-digital dataset was read from
SourceLines ==
  IF prog = "parse" THEN file
  ELSE (IF split \in {TRAIN, TRAINTEST} THEN trainGt ELSE <<>>)
       \o (IF split \in {TEST, TRAINTEST} THEN testGt ELSE <<>>)

\* C10 (as amended): a returned dataset has one entry per label of its source,
\* and an entry's text is non-empty exactly when the source label is: a line
\* whose trimmed remainder after the first comma has a character between its
\* first and last, an annotation whose transcription is non-empty.  Blank
\* lines, lines with no comma, empty quoted labels and annotations with an
\* empty transcription give entries with an empty text.
C10_TextEmptyIffLabelEmpty ==
  (pc = "returned") =>
     IF prog = "coco"
     THEN /\ AllAnnotationsPresent
          /\ \A p \in 1..Len(dataset) :
               dataset[p].text # <<>> <=> AnnUtf8String(dataset[p].box) # <<>>
     ELSE /\ Len(dataset) = Len(SourceLines)
          /\ \A i \in 1..Len(dataset) :
               dataset[i].text # <<>> <=>
                 Len(Trimmed(AfterFirstComma(Trimmed(SourceLines[i])))) > 2

\* C10 (witness): a born-digital dataset was returned with an entry of empty
\* text and one of non-empty text.
C10_Witness ==
  /\ prog = "born" /\ pc = "returned"
  /\ \E i \in 1..Len(dataset) : dataset[i].text = <<>>
  /\ \E i \in 1..Len(dataset) : dataset[i].text # <<>>

\* C10 (as stated): every entry of a returned dataset has a non-empty text.
C10_TextNonEmpty ==
  (pc = "returned") => \A i \in 1..Len(dataset) : dataset[i].text # <<>>


(***************************************************************************)
(* Properties of the generator.                                            *)
(***************************************************************************)
Legal(c) == InAlphabet(c, galphabet)
Count(s, e) == Cardinality({i \in 1..Len(s) : s[i] = e})
Usable(labels) ==
  \E i \in 1..Len(labels) : \E j \in 1..Len(labels[i].text) : Legal(labels[i].text[j])

\* C2: a visit that reads its image emits a pair exactly when the visited
\* entry's text keeps a character of the alphabet; the emitted text is then
\* non-empty and is the entry's text with exactly the characters outside the
\* alphabet removed, in the same order.  Otherwise the entry is skipped: the
\* index advances and no pair is emitted.
C2_FilteredText ==
  [][(prog = "gen" /\ pc = "running" /\ pc' \in {"running", "yielded"}) =>
       LET kept == SelectSeq(gentry'[1].text, Legal)
       IN /\ gindex' = (gindex + 1) % Len(gorig)
          /\ IF kept = <<>>
             THEN pc' = "running" /\ gyield' = <<>>
             ELSE /\ pc' = "yielded"
                  /\ gyield'[1].text = kept
                  /\ gyield'[1].text # <<>>]_vars

\* C2 (witness): the entry with text "bxa" was emitted as "ba".
C2_Witness ==
  /\ prog = "gen" /\ pc = "yielded"
  /\ gentry[1].text = <<98, 120, 97>>
  /\ gyield[1].text = <<98, 97>>

\* C3: the private copy holds the entries of the dataset in an order that
\* changes only at a visit of index 0: the entries visited since the last
\* visit of index 0 are the first entries of the private copy in its present
\* order, so a pass of K visits is a permutation of the K original entries.
C3_ShuffleOnlyAtZero ==
  (prog = "gen" /\ pc # "created") =>
     /\ Len(glabels) = Len(gorig)
     /\ \A i \in 1..Len(gorig) : Count(glabels, gorig[i]) = Count(gorig, gorig[i])
     /\ gpass = SubSeq(glabels, 1, Len(gpass))
     /\ gindex # 0 => Len(gpass) = gindex
     /\ gindex = 0 => Len(gpass) \in {0, Len(gorig)}

\* C3 (witness): a full pass over two different entries was made in the
\* order opposite to the dataset's.
C3_Witness ==
  /\ prog = "gen" /\ Len(gorig) = 2 /\ gorig[1] # gorig[2]
  /\ gindex = 0 /\ Len(gpass) = 2
  /\ gpass[1] = gorig[2] /\ gpass[2] = gorig[1]

\* C6 (as amended): for a non-empty dataset the stream never ends by itself,
\* and for a dataset with at least one entry whose text has a character of the
\* alphabet every pull eventually yields a pair, unless reading an image fails.
C6_PullYields ==
  /\ [](prog = "gen" /\ gorig # <<>> => pc # "exhausted")
  /\ (prog = "gen" /\ pc = "running" /\ Usable(gorig)) ~> (pc \in {"yielded", "raised"})

\* C6 (witness): a pull yielded a pair after it skipped an entry.
C6_Witness ==
  /\ prog = "gen" /\ pc = "yielded"
  /\ Len(gpass) = 2
  /\ SelectSeq(gpass[1].text, Legal) = <<>>

\* C6 (as stated): for any dataset, every pull eventually yields a pair,
\* unless reading an image fails.
C6_EveryPullYields ==
  (prog = "gen" /\ pc = "running") ~> (pc \in {"yielded", "raised"})

\* C9: every sample of the fill colour drawn for an entry is in 0..255, and
\* each of the 256 values 0..255 can be drawn as the next sample.
C9_FullByteRange ==
  (prog = "cval" /\ cvalChan = CvalSize) =>
     /\ cvalSample \in 0..255
     /\ \A v \in 0..255 : ENABLED DrawCvalSample(v)

====
